---- MODULE Spec2Model ----
(***************************************************************************)
(* A model of the httpie command-line client (src/src/main.rs).            *)
(*                                                                         *)
(* Strings are sequences of tokens; a body token such as "a=1" is the      *)
(* sequence <<"a", "=", "1">> of its characters, a URL or a header value   *)
(* is the sequence of its lexical pieces.  The terminal output is the      *)
(* sequence of the lines written, each line a sequence of tokens, the      *)
(* empty sequence being a blank line.                                      *)
(***************************************************************************)
EXTENDS Integers, Sequences, FiniteSets, TLC

VARIABLES pc, argv, opts, client, sent, reqBody, resp, mine, body, path,
          out, outcome, s, kv

vars == <<pc, argv, opts, client, sent, reqBody, resp, mine, body, path,
          out, outcome, s, kv>>

-----------------------------------------------------------------------------
(* Bounds *)

\* most body tokens given to `post`
MaxArgs == 2
\* most header lines of a response
MaxHeaders == 2
\* most characters of a body token handed to the key-value parser alone
MaxTokLen == 4

-----------------------------------------------------------------------------
(* Generic helpers *)

RECURSIVE SeqsUpTo(_, _)
SeqsUpTo(S, n) ==
  IF n = 0 THEN {<<>>}
  ELSE LET shorter == SeqsUpTo(S, n - 1)
       IN  shorter \cup {Append(q, x) : q \in {r \in shorter : Len(r) = n - 1}, x \in S}

-----------------------------------------------------------------------------
(* Key-value parser *)

\* characters of a body token
KvChars == {"a", "1", "="}

\* str::split(sep): the segments between every occurrence of sep
RECURSIVE Split(_, _)
Split(str, sep) ==
  IF \A i \in 1..Len(str) : str[i] # sep
  THEN <<str>>
  ELSE LET i == CHOOSE j \in 1..Len(str) :
                  str[j] = sep /\ \A h \in 1..(j - 1) : str[h] # sep
       IN  <<SubSeq(str, 1, i - 1)>> \o Split(SubSeq(str, i + 1, Len(str)), sep)

KvErr(str) == [ok |-> FALSE, msg |-> <<"Failed to parse ">> \o str]
KvOk(k, v) == [ok |-> TRUE, k |-> k, v |-> v]

\* a parser that also rejects an empty value
from_str_novalue(str) ==
  LET split == Split(str, "=")
  IN  IF Len(split) < 2 \/ split[2] = <<>> THEN KvErr(str)
      ELSE KvOk(split[1], split[2])

\* impl FromStr for KvPair: two successive split.next()
from_str(str) ==
  LET split == Split(str, "=")
  IN  IF Len(split) < 1 THEN KvErr(str)
      ELSE IF Len(split) < 2 THEN KvErr(str)
      ELSE KvOk(split[1], split[2])

\* a parser that takes a token without '=' as a key with an empty value
parse_kv_pair_lenient(str) ==
  IF from_str(str).ok THEN from_str(str) ELSE KvOk(str, <<>>)

\* parse_kv_pair: Ok(s.parse()?)
parse_kv_pair(str) == from_str(str)

-----------------------------------------------------------------------------
(* URL validator *)

Schemes == {"http", "https"}
PathTokens == {"/post"}

\* the URL arguments tried: "abs", "http://abc.xyz", "https://httpbin.org/post"
Urls == { <<"abs">>,
          <<"http", "://", "abc.xyz">>,
          <<"https", "://", "httpbin.org", "/post">> }

\* s.parse::<Url>(): an absolute URL has a scheme, "://" and a host
UrlParses(str) ==
  /\ Len(str) >= 3
  /\ str[1] \in Schemes
  /\ str[2] = "://"
  /\ str[3] \notin PathTokens

\* parse_url: Ok(s) when s parses as a Url, Err otherwise
parse_url(str) == [ok |-> UrlParses(str), url |-> str]

-----------------------------------------------------------------------------
(* Request body of a POST *)

EmptyMap == [x \in {} |-> <<>>]

\* an insert that keeps the value already stored under the key
insert_keep(m, k, v) ==
  [x \in (DOMAIN m) \cup {k} |-> IF x \in DOMAIN m THEN m[x] ELSE v]

\* HashMap::insert: the new value replaces the one stored under the key
insert(m, k, v) ==
  [x \in (DOMAIN m) \cup {k} |-> IF x = k THEN v ELSE m[x]]

\* the loop of post: body.insert(&pair.k, &pair.v) for each pair, in order
RECURSIVE BodyOf(_)
BodyOf(pairs) ==
  IF pairs = <<>> THEN EmptyMap
  ELSE LET n == Len(pairs)
       IN  insert(BodyOf(SubSeq(pairs, 1, n - 1)), pairs[n].k, pairs[n].v)

NoBody == [present |-> FALSE, map |-> EmptyMap]

-----------------------------------------------------------------------------
(* Responses *)

Statuses == {"200 OK", "404 Not Found", "500 Internal Server Error"}
ErrorStatuses == {"404 Not Found", "500 Internal Server Error"}

\* a byte of a header value outside visible ASCII
ObsText == {"<E9>"}
MimeNames == {"application", "json", "text", "html", "plain"}

CtJson == <<"application", "/", "json">>
CtJsonCharset == <<"application", "/", "json", ";", "charset=utf-8">>
CtHtml == <<"text", "/", "html">>
CtPlain == <<"text", "/", "plain">>
CtGarbage == <<"garbage">>
CtObsText == <<"text", "/", "<E9>">>
CtValues == {CtJson, CtJsonCharset, CtHtml, CtPlain, CtGarbage, CtObsText}

HeaderEntries ==
  {[name |-> "content-type", value |-> v] : v \in CtValues}
    \cup {[name |-> "server", value |-> <<"nginx">>]}

Responses ==
  [version : {"HTTP/1.1"}, status : Statuses,
   wire : SeqsUpTo(HeaderEntries, MaxHeaders)]

NoResp == [version |-> "", status |-> "", wire |-> <<>>]

Bodies == { <<"<payload>">> }

\* resp.headers() iterated: the values of one name together, the names in
\* the order of their first arrival
RECURSIVE HeaderMapIter(_)
HeaderMapIter(wire) ==
  IF wire = <<>> THEN <<>>
  ELSE LET n == wire[1].name
       IN  SelectSeq(wire, LAMBDA h : h.name = n)
             \o HeaderMapIter(SelectSeq(wire, LAMBDA h : h.name # n))

\* headers().get(name): the first value stored under the name
HeaderGet(wire, name) ==
  LET hits == SelectSeq(wire, LAMBDA h : h.name = name)
  IN  IF hits = <<>> THEN [some |-> FALSE, value |-> <<>>]
      ELSE [some |-> TRUE, value |-> hits[1].value]

\* HeaderValue::to_str: an error on a byte outside visible ASCII
ToStrOk(v) == \A i \in 1..Len(v) : v[i] \notin ObsText

\* str::parse::<Mime>: type "/" subtype, then optionally ";" and a parameter
MimeParses(v) ==
  /\ Len(v) \in {3, 5}
  /\ v[1] \in MimeNames /\ v[2] = "/" /\ v[3] \in MimeNames
  /\ Len(v) = 5 => (v[4] = ";" /\ v[5] = "charset=utf-8")

Mime(v) == [some |-> TRUE, type |-> v[1], subtype |-> v[3],
            params |-> SubSeq(v, 5, Len(v))]
NoMime == [some |-> FALSE, type |-> "", subtype |-> "", params |-> <<>>]

APPLICATION_JSON == Mime(CtJson)
TEXT_HTML == Mime(CtHtml)

-----------------------------------------------------------------------------
(* Rendering *)

Blank == <<>>

\* format!("{:?} {}", resp.version(), resp.status())
StatusLine(r) == <<r.version, " ", r.status>>

\* one header as println!("{}: {:?}\n", name, value) writes it: the header
\* line, then the line the "\n" of the format string ends
HeaderLines(h) == << <<h.name, ": ", "\"">> \o h.value \o <<"\"">>, Blank >>

RECURSIVE HeadersOut(_)
HeadersOut(hs) ==
  IF hs = <<>> THEN <<>> ELSE HeaderLines(hs[1]) \o HeadersOut(Tail(hs))

\* the arm print_body takes: Mime equality compares the parameters too
BodyPath(m) ==
  IF m.some /\ m = APPLICATION_JSON THEN "json"
  ELSE IF m.some /\ m = TEXT_HTML THEN "html"
  ELSE "plain"

\* print_synctect(body, ext): the body with terminal colour escapes
Highlighted(b, ext) == <<"<esc:" \o ext \o ">">> \o b

BodyOut(p, b) ==
  IF p = "plain" THEN b ELSE Highlighted(b, p)

-----------------------------------------------------------------------------
(* The command line *)

ArgTokens == { <<"a">>, <<"a", "=", "1">>, <<"a", "=", "2">>, <<"b", "=">> }

Argvs ==
  [subcmd : {"get"}, url : Urls, body : {<<>>}]
    \cup [subcmd : {"post"}, url : Urls, body : SeqsUpTo(ArgTokens, MaxArgs)]

NoOpts == [subcmd |-> "", url |-> <<>>, body |-> <<>>]

Pair(r) == [k |-> r.k, v |-> r.v]

-----------------------------------------------------------------------------
(* One invocation of the program *)

Init ==
  /\ pc = "main"
  /\ argv \in Argvs
  /\ opts = NoOpts
  /\ client = FALSE
  /\ sent = 0
  /\ reqBody = NoBody
  /\ resp = NoResp
  /\ mine = NoMime
  /\ body = <<>>
  /\ path = "none"
  /\ out = <<>>
  /\ outcome = "running"
  /\ s = <<>>
  /\ kv = KvErr(<<>>)

Exit(o) == pc' = "exit" /\ outcome' = o

\* Opts::parse(): the value parsers run on the url, then on each body token
OptsParse ==
  /\ pc = "main"
  /\ IF ~parse_url(argv.url).ok
     THEN Exit("InvalidURL") /\ UNCHANGED opts
     ELSE IF \E i \in 1..Len(argv.body) : ~parse_kv_pair(argv.body[i]).ok
     THEN Exit("MalformedPair") /\ UNCHANGED opts
     ELSE /\ opts' = [subcmd |-> argv.subcmd,
                      url |-> parse_url(argv.url).url,
                      body |-> [i \in 1..Len(argv.body) |->
                                  Pair(parse_kv_pair(argv.body[i]))]]
          /\ pc' = "client"
          /\ UNCHANGED outcome
  /\ UNCHANGED <<argv, client, sent, reqBody, resp, mine, body, path, out, s, kv>>

\* Client::builder().default_headers(headers).build()? succeeds
ClientBuilt ==
  /\ pc = "client"
  /\ client' = TRUE
  /\ pc' = "dispatch"
  /\ UNCHANGED <<argv, opts, sent, reqBody, resp, mine, body, path, out, outcome, s, kv>>

\* Client::builder().default_headers(headers).build()? returns the error
ClientFailed ==
  /\ pc = "client"
  /\ Exit("ClientBuild")
  /\ UNCHANGED <<argv, opts, client, sent, reqBody, resp, mine, body, path, out, s, kv>>

\* a send that is tried again after a transport failure
SendRetry ==
  /\ sent' = sent + 1
  /\ \/ /\ resp' \in Responses
        /\ pc' = "print_status"
        /\ UNCHANGED outcome
     \/ /\ sent < 2
        /\ UNCHANGED <<pc, outcome, resp>>
     \/ /\ sent >= 2
        /\ Exit("Transport")
        /\ UNCHANGED resp

\* send().await?: a response arrives, or the transport fails
Send ==
  /\ sent' = sent + 1
  /\ \/ /\ resp' \in Responses
        /\ pc' = "print_status"
        /\ UNCHANGED outcome
     \/ /\ Exit("Transport")
        /\ UNCHANGED resp

\* get: client.get(&args.url).send().await?
get ==
  /\ pc = "dispatch"
  /\ opts.subcmd = "get"
  /\ Send
  /\ UNCHANGED <<argv, opts, client, reqBody, mine, body, path, out, s, kv>>

\* post: the body map is built, then client.post(&args.url).json(&body).send().await?
post ==
  /\ pc = "dispatch"
  /\ opts.subcmd = "post"
  /\ reqBody' = [present |-> TRUE, map |-> BodyOf(opts.body)]
  /\ Send
  /\ UNCHANGED <<argv, opts, client, mine, body, path, out, s, kv>>

\* print_status: println!("{}\n", status)
print_status ==
  /\ pc = "print_status"
  /\ out' = out \o <<StatusLine(resp), Blank>>
  /\ pc' = "print_headers"
  /\ UNCHANGED <<argv, opts, client, sent, reqBody, resp, mine, body, path, outcome, s, kv>>

\* print_headers: every header, then print!("\n")
print_headers ==
  /\ pc = "print_headers"
  /\ out' = out \o HeadersOut(HeaderMapIter(resp.wire)) \o <<Blank>>
  /\ pc' = "get_content_type"
  /\ UNCHANGED <<argv, opts, client, sent, reqBody, resp, mine, body, path, outcome, s, kv>>

\* get_content_type: .get(CONTENT_TYPE).map(|v| v.to_str().unwrap().parse().unwrap())
get_content_type ==
  /\ pc = "get_content_type"
  /\ LET ct == HeaderGet(resp.wire, "content-type")
     IN  IF ~ct.some
         THEN mine' = NoMime /\ pc' = "text" /\ UNCHANGED outcome
         ELSE IF ~ToStrOk(ct.value) \/ ~MimeParses(ct.value)
         THEN Exit("panic") /\ UNCHANGED mine
         ELSE mine' = Mime(ct.value) /\ pc' = "text" /\ UNCHANGED outcome
  /\ UNCHANGED <<argv, opts, client, sent, reqBody, resp, body, path, out, s, kv>>

\* resp.text().await?: the body is read, or the transport fails
text ==
  /\ pc = "text"
  /\ \/ /\ body' \in Bodies
        /\ pc' = "print_body"
        /\ UNCHANGED outcome
     \/ /\ Exit("Transport")
        /\ UNCHANGED body
  /\ UNCHANGED <<argv, opts, client, sent, reqBody, resp, mine, path, out, s, kv>>

\* print_body, then Ok(()) up to main
print_body ==
  /\ pc = "print_body"
  /\ path' = BodyPath(mine)
  /\ out' = out \o <<BodyOut(BodyPath(mine), body)>>
  /\ Exit("ok")
  /\ UNCHANGED <<argv, opts, client, sent, reqBody, resp, mine, body, s, kv>>

Next ==
  \/ OptsParse
  \/ ClientBuilt
  \/ ClientFailed
  \/ get
  \/ post
  \/ print_status
  \/ print_headers
  \/ get_content_type
  \/ text
  \/ print_body

Spec == Init /\ [][Next]_vars

-----------------------------------------------------------------------------
(* The key-value parser alone, on every token of up to MaxTokLen characters *)

InitKv ==
  /\ pc = "from_str"
  /\ s \in SeqsUpTo(KvChars, MaxTokLen)
  /\ kv = KvErr(<<>>)
  /\ argv = [subcmd |-> "post", url |-> <<>>, body |-> <<>>]
  /\ opts = NoOpts
  /\ client = FALSE
  /\ sent = 0
  /\ reqBody = NoBody
  /\ resp = NoResp
  /\ mine = NoMime
  /\ body = <<>>
  /\ path = "none"
  /\ out = <<>>
  /\ outcome = "running"

\* parse_kv_pair(s)
ParseKvPair ==
  /\ pc = "from_str"
  /\ kv' = parse_kv_pair(s)
  /\ pc' = "returned"
  /\ UNCHANGED <<argv, opts, client, sent, reqBody, resp, mine, body, path, out, outcome, s>>

NextKv == ParseKvPair

SpecKv == InitKv /\ [][NextKv]_vars

-----------------------------------------------------------------------------
(* Vocabulary of the properties *)

HasEq(str) == \E i \in 1..Len(str) : str[i] = "="

FirstEq(str) == CHOOSE i \in 1..Len(str) :
                  str[i] = "=" /\ \A h \in 1..(i - 1) : str[h] # "="

ArgsValid == UrlParses(argv.url) /\ \A i \in 1..Len(argv.body) : HasEq(argv.body[i])

Received == resp # NoResp

\* the response declares no usable media type
CtUnusable(r) ==
  LET ct == HeaderGet(r.wire, "content-type")
  IN  ~ct.some \/ ~ToStrOk(ct.value) \/ ~MimeParses(ct.value)

\* the type/subtype pair the response declares
Essence(r) ==
  IF CtUnusable(r) THEN <<>>
  ELSE LET v == HeaderGet(r.wire, "content-type").value IN <<v[1], v[3]>>

PathByEssence(r) ==
  IF Essence(r) = <<"application", "json">> THEN "json"
  ELSE IF Essence(r) = <<"text", "html">> THEN "html"
  ELSE "plain"

Rank(p) ==
  CASE p = "main" -> 0
    [] p = "client" -> 1
    [] p = "dispatch" -> 2
    [] p = "print_status" -> 3
    [] p = "print_headers" -> 4
    [] p = "get_content_type" -> 5
    [] p = "text" -> 6
    [] p = "print_body" -> 7
    [] OTHER -> 8

-----------------------------------------------------------------------------
(* Properties *)

\* C1: a token k=v with k non-empty and free of '=' parses to exactly the
\* pair (k, v), v being everything after the first '=', later '=' included.
C1_WholeRemainder ==
  (pc = "returned" /\ HasEq(s) /\ FirstEq(s) > 1)
    => kv = KvOk(SubSeq(s, 1, FirstEq(s) - 1), SubSeq(s, FirstEq(s) + 1, Len(s)))

\* C2: parsing fails exactly for the tokens without '=' (with the error that
\* names the token), and a token k= yields the key k with the empty value.
C2_FailsIffNoEq ==
  pc = "returned" =>
    /\ kv.ok <=> HasEq(s)
    /\ ~HasEq(s) => kv = KvErr(s)
    /\ (HasEq(s) /\ FirstEq(s) = Len(s)) => kv = KvOk(SubSeq(s, 1, Len(s) - 1), <<>>)

C2_Witness ==
  /\ pc = "returned"
  /\ Len(s) >= 2 /\ HasEq(s) /\ FirstEq(s) = Len(s)
  /\ kv.ok /\ kv.v = <<>>

\* C3: a response without a Content-Type header, or with one that is no
\* media type, resolves to none and is rendered plain; the invocation does
\* not crash and, the body being read, completes the rendering.
C3_UnusableTypeIsPlain ==
  (Received /\ CtUnusable(resp) /\ pc \in {"text", "print_body", "exit"}
     /\ outcome # "Transport")
    => /\ outcome # "panic"
       /\ mine = NoMime
       /\ pc = "exit" => (outcome = "ok" /\ path = "plain")

\* C4: the body of a rendered response took the path its type/subtype pair
\* selects: application/json the JSON path, text/html the HTML path, any
\* other or none the plain path.
C4_PathByMediaType ==
  (pc = "exit" /\ outcome = "ok") => path = PathByEssence(resp)

\* C5: an invocation that ends in a transport failure has emitted nothing.
C5_NoOutputOnTransportFailure ==
  outcome = "Transport" => out = <<>>

\* C6: the body of a POST has exactly the keys supplied, and each key maps
\* to the value of its last occurrence among the pairs.
C6_LastWins ==
  reqBody.present =>
    /\ DOMAIN reqBody.map = {opts.body[i].k : i \in 1..Len(opts.body)}
    /\ \A i \in 1..Len(opts.body) :
         (\A j \in (i + 1)..Len(opts.body) : opts.body[j].k # opts.body[i].k)
           => reqBody.map[opts.body[i].k] = opts.body[i].v
    /\ \A i \in 1..Len(opts.body) :
         /\ HasEq(argv.body[i])
         /\ opts.body[i].k = SubSeq(argv.body[i], 1, FirstEq(argv.body[i]) - 1)

C6_Witness ==
  /\ reqBody.present
  /\ Len(opts.body) = 2
  /\ opts.body[1].k = opts.body[2].k
  /\ opts.body[1].v # opts.body[2].v
  /\ reqBody.map[opts.body[1].k] = opts.body[2].v

\* C7: with an invalid URL or a body token without '=', nothing is built,
\* sent or rendered, and the invocation ends in InvalidURL or MalformedPair.
C7_ValidationFirst ==
  ~ArgsValid =>
    /\ sent = 0 /\ ~client /\ ~reqBody.present /\ ~Received /\ out = <<>>
    /\ opts = NoOpts
    /\ pc \in {"main", "exit"}
    /\ pc = "exit" =>
         outcome = (IF ~UrlParses(argv.url) THEN "InvalidURL" ELSE "MalformedPair")

C7_Witness ==
  /\ pc = "exit" /\ outcome = "MalformedPair"
  /\ Len(argv.body) = 2 /\ HasEq(argv.body[1]) /\ ~HasEq(argv.body[2])
  /\ sent = 0 /\ out = <<>>

\* C8: a response with a 4xx or 5xx status, its body read, is rendered and
\* the invocation completes successfully.
C8_ErrorStatusCompletes ==
  (pc = "exit" /\ Received /\ resp.status \in ErrorStatuses /\ outcome # "Transport")
    => outcome = "ok"

\* C9: a rendered response is the status line, a blank line, the headers one
\* per line in the order received, a single blank line, then the body.
C9_ThreeSegments ==
  (pc = "exit" /\ outcome = "ok") =>
    out = <<StatusLine(resp), Blank>>
            \o [i \in 1..Len(resp.wire) |-> HeaderLines(resp.wire[i])[1]]
            \o <<Blank>>
            \o <<BodyOut(path, body)>>

====
